---- MODULE Spec2Model ----
(***************************************************************************)
(* Model of src/config.py: the module-level configuration resolution pass  *)
(* of osulv-dc-bot.  The module body runs once, top to bottom, at import   *)
(* time; every statement group is one action, the module namespace is the  *)
(* state, and an uncaught exception ends the pass.                         *)
(*                                                                         *)
(* Text is modelled as a sequence of one-character strings, so that        *)
(* json.loads, json.dumps and int() are computed character by character.   *)
(* Python values are tagged records:                                       *)
(*   None        [t |-> "null"]                                            *)
(*   bool        [t |-> "bool", b |-> TRUE]                                *)
(*   int         [t |-> "int",  n |-> 7]                                   *)
(*   str         [t |-> "str",  s |-> <<"a", "b">>]                        *)
(*   list        [t |-> "list", xs |-> <<...>>]                            *)
(*   dict        [t |-> "dict", items |-> << [k |-> key, v |-> val], ...>>]*)
(* with key and val Python values themselves.                              *)
(* A dict keeps its items in insertion order with unique keys, as Python   *)
(* dicts do.  The modelled input alphabet is every character but the       *)
(* backslash and the control characters other than tab, line feed,         *)
(* vertical tab, form feed and carriage return; numbers have no '.', 'e',  *)
(* 'E' and there is no NaN/Infinity, so string escapes and floats never    *)
(* arise.                                                                  *)
(***************************************************************************)
EXTENDS Integers, Sequences, FiniteSets, TLC

(***************************************************************************)
(* Python values                                                           *)
(***************************************************************************)
None == [t |-> "null"]
PyBool(b) == [t |-> "bool", b |-> b]
PyInt(n) == [t |-> "int", n |-> n]
PyStr(s) == [t |-> "str", s |-> s]
PyList(xs) == [t |-> "list", xs |-> xs]
PyDict(items) == [t |-> "dict", items |-> items]

\* A name of the module namespace that no statement has bound yet.
Unbound == [t |-> "unbound"]

\* Call by value: F applied to the value of v, with v evaluated exactly once.
\* (Python evaluates an expression once and binds the result; a TLA+ LET or
\* operator argument is re-evaluated at every use.)
Eval(v, F(_)) == CHOOSE r \in {F(x) : x \in {v}} : TRUE

\* bool(x): the truth value Python's `if x:` / `if not x:` uses.
Truthy(x) ==
    CASE x.t = "null" -> FALSE
      [] x.t = "bool" -> x.b
      [] x.t = "int" -> x.n # 0
      [] x.t = "str" -> Len(x.s) > 0
      [] x.t = "list" -> Len(x.xs) > 0
      [] x.t = "dict" -> Len(x.items) > 0

(***************************************************************************)
(* Characters.  A character is a one-element string: the ASCII characters  *)
(* are written as themselves ("\t", "\n", "\r" for tab, line feed and      *)
(* carriage return), every other character as the name of its code point,  *)
(* "U+000B" (vertical tab), "U+00A0" (no-break space), "U+0664"            *)
(* (Arabic-Indic digit four).                                              *)
(***************************************************************************)
DQ == "\""
\* the ASCII digits: the digits of a JSON number and of str(n)
Digits == <<"0", "1", "2", "3", "4", "5", "6", "7", "8", "9">>
IsAsciiDigit(c) == \E i \in 1..Len(Digits) : Digits[i] = c
\* JSON whitespace (json.decoder.WHITESPACE)
IsJsonSpace(c) == c \in {" ", "\t", "\n", "\r"}
\* the control characters of the alphabet; json.loads refuses them in a string
ControlChars == {"\t", "\n", "\r", "U+000B", "U+000C"}

\* The decimal digits int() accepts: every character of Unicode category Nd
\* (Unicode 14.0, the database of CPython 3.11).  DecimalDigits[d + 1] holds
\* the characters whose decimal value is d.
DecimalDigits ==
    << {"0", "U+0660", "U+06F0", "U+07C0", "U+0966", "U+09E6", "U+0A66",
        "U+0AE6", "U+0B66", "U+0BE6", "U+0C66", "U+0CE6", "U+0D66", "U+0DE6",
        "U+0E50", "U+0ED0", "U+0F20", "U+1040", "U+1090", "U+17E0", "U+1810",
        "U+1946", "U+19D0", "U+1A80", "U+1A90", "U+1B50", "U+1BB0", "U+1C40",
        "U+1C50", "U+A620", "U+A8D0", "U+A900", "U+A9D0", "U+A9F0", "U+AA50",
        "U+ABF0", "U+FF10", "U+104A0", "U+10D30", "U+11066", "U+110F0",
        "U+11136", "U+111D0", "U+112F0", "U+11450", "U+114D0", "U+11650",
        "U+116C0", "U+11730", "U+118E0", "U+11950", "U+11C50", "U+11D50",
        "U+11DA0", "U+16A60", "U+16AC0", "U+16B50", "U+1D7CE", "U+1D7D8",
        "U+1D7E2", "U+1D7EC", "U+1D7F6", "U+1E140", "U+1E2F0", "U+1E950",
        "U+1FBF0"},
       {"1", "U+0661", "U+06F1", "U+07C1", "U+0967", "U+09E7", "U+0A67",
        "U+0AE7", "U+0B67", "U+0BE7", "U+0C67", "U+0CE7", "U+0D67", "U+0DE7",
        "U+0E51", "U+0ED1", "U+0F21", "U+1041", "U+1091", "U+17E1", "U+1811",
        "U+1947", "U+19D1", "U+1A81", "U+1A91", "U+1B51", "U+1BB1", "U+1C41",
        "U+1C51", "U+A621", "U+A8D1", "U+A901", "U+A9D1", "U+A9F1", "U+AA51",
        "U+ABF1", "U+FF11", "U+104A1", "U+10D31", "U+11067", "U+110F1",
        "U+11137", "U+111D1", "U+112F1", "U+11451", "U+114D1", "U+11651",
        "U+116C1", "U+11731", "U+118E1", "U+11951", "U+11C51", "U+11D51",
        "U+11DA1", "U+16A61", "U+16AC1", "U+16B51", "U+1D7CF", "U+1D7D9",
        "U+1D7E3", "U+1D7ED", "U+1D7F7", "U+1E141", "U+1E2F1", "U+1E951",
        "U+1FBF1"},
       {"2", "U+0662", "U+06F2", "U+07C2", "U+0968", "U+09E8", "U+0A68",
        "U+0AE8", "U+0B68", "U+0BE8", "U+0C68", "U+0CE8", "U+0D68", "U+0DE8",
        "U+0E52", "U+0ED2", "U+0F22", "U+1042", "U+1092", "U+17E2", "U+1812",
        "U+1948", "U+19D2", "U+1A82", "U+1A92", "U+1B52", "U+1BB2", "U+1C42",
        "U+1C52", "U+A622", "U+A8D2", "U+A902", "U+A9D2", "U+A9F2", "U+AA52",
        "U+ABF2", "U+FF12", "U+104A2", "U+10D32", "U+11068", "U+110F2",
        "U+11138", "U+111D2", "U+112F2", "U+11452", "U+114D2", "U+11652",
        "U+116C2", "U+11732", "U+118E2", "U+11952", "U+11C52", "U+11D52",
        "U+11DA2", "U+16A62", "U+16AC2", "U+16B52", "U+1D7D0", "U+1D7DA",
        "U+1D7E4", "U+1D7EE", "U+1D7F8", "U+1E142", "U+1E2F2", "U+1E952",
        "U+1FBF2"},
       {"3", "U+0663", "U+06F3", "U+07C3", "U+0969", "U+09E9", "U+0A69",
        "U+0AE9", "U+0B69", "U+0BE9", "U+0C69", "U+0CE9", "U+0D69", "U+0DE9",
        "U+0E53", "U+0ED3", "U+0F23", "U+1043", "U+1093", "U+17E3", "U+1813",
        "U+1949", "U+19D3", "U+1A83", "U+1A93", "U+1B53", "U+1BB3", "U+1C43",
        "U+1C53", "U+A623", "U+A8D3", "U+A903", "U+A9D3", "U+A9F3", "U+AA53",
        "U+ABF3", "U+FF13", "U+104A3", "U+10D33", "U+11069", "U+110F3",
        "U+11139", "U+111D3", "U+112F3", "U+11453", "U+114D3", "U+11653",
        "U+116C3", "U+11733", "U+118E3", "U+11953", "U+11C53", "U+11D53",
        "U+11DA3", "U+16A63", "U+16AC3", "U+16B53", "U+1D7D1", "U+1D7DB",
        "U+1D7E5", "U+1D7EF", "U+1D7F9", "U+1E143", "U+1E2F3", "U+1E953",
        "U+1FBF3"},
       {"4", "U+0664", "U+06F4", "U+07C4", "U+096A", "U+09EA", "U+0A6A",
        "U+0AEA", "U+0B6A", "U+0BEA", "U+0C6A", "U+0CEA", "U+0D6A", "U+0DEA",
        "U+0E54", "U+0ED4", "U+0F24", "U+1044", "U+1094", "U+17E4", "U+1814",
        "U+194A", "U+19D4", "U+1A84", "U+1A94", "U+1B54", "U+1BB4", "U+1C44",
        "U+1C54", "U+A624", "U+A8D4", "U+A904", "U+A9D4", "U+A9F4", "U+AA54",
        "U+ABF4", "U+FF14", "U+104A4", "U+10D34", "U+1106A", "U+110F4",
        "U+1113A", "U+111D4", "U+112F4", "U+11454", "U+114D4", "U+11654",
        "U+116C4", "U+11734", "U+118E4", "U+11954", "U+11C54", "U+11D54",
        "U+11DA4", "U+16A64", "U+16AC4", "U+16B54", "U+1D7D2", "U+1D7DC",
        "U+1D7E6", "U+1D7F0", "U+1D7FA", "U+1E144", "U+1E2F4", "U+1E954",
        "U+1FBF4"},
       {"5", "U+0665", "U+06F5", "U+07C5", "U+096B", "U+09EB", "U+0A6B",
        "U+0AEB", "U+0B6B", "U+0BEB", "U+0C6B", "U+0CEB", "U+0D6B", "U+0DEB",
        "U+0E55", "U+0ED5", "U+0F25", "U+1045", "U+1095", "U+17E5", "U+1815",
        "U+194B", "U+19D5", "U+1A85", "U+1A95", "U+1B55", "U+1BB5", "U+1C45",
        "U+1C55", "U+A625", "U+A8D5", "U+A905", "U+A9D5", "U+A9F5", "U+AA55",
        "U+ABF5", "U+FF15", "U+104A5", "U+10D35", "U+1106B", "U+110F5",
        "U+1113B", "U+111D5", "U+112F5", "U+11455", "U+114D5", "U+11655",
        "U+116C5", "U+11735", "U+118E5", "U+11955", "U+11C55", "U+11D55",
        "U+11DA5", "U+16A65", "U+16AC5", "U+16B55", "U+1D7D3", "U+1D7DD",
        "U+1D7E7", "U+1D7F1", "U+1D7FB", "U+1E145", "U+1E2F5", "U+1E955",
        "U+1FBF5"},
       {"6", "U+0666", "U+06F6", "U+07C6", "U+096C", "U+09EC", "U+0A6C",
        "U+0AEC", "U+0B6C", "U+0BEC", "U+0C6C", "U+0CEC", "U+0D6C", "U+0DEC",
        "U+0E56", "U+0ED6", "U+0F26", "U+1046", "U+1096", "U+17E6", "U+1816",
        "U+194C", "U+19D6", "U+1A86", "U+1A96", "U+1B56", "U+1BB6", "U+1C46",
        "U+1C56", "U+A626", "U+A8D6", "U+A906", "U+A9D6", "U+A9F6", "U+AA56",
        "U+ABF6", "U+FF16", "U+104A6", "U+10D36", "U+1106C", "U+110F6",
        "U+1113C", "U+111D6", "U+112F6", "U+11456", "U+114D6", "U+11656",
        "U+116C6", "U+11736", "U+118E6", "U+11956", "U+11C56", "U+11D56",
        "U+11DA6", "U+16A66", "U+16AC6", "U+16B56", "U+1D7D4", "U+1D7DE",
        "U+1D7E8", "U+1D7F2", "U+1D7FC", "U+1E146", "U+1E2F6", "U+1E956",
        "U+1FBF6"},
       {"7", "U+0667", "U+06F7", "U+07C7", "U+096D", "U+09ED", "U+0A6D",
        "U+0AED", "U+0B6D", "U+0BED", "U+0C6D", "U+0CED", "U+0D6D", "U+0DED",
        "U+0E57", "U+0ED7", "U+0F27", "U+1047", "U+1097", "U+17E7", "U+1817",
        "U+194D", "U+19D7", "U+1A87", "U+1A97", "U+1B57", "U+1BB7", "U+1C47",
        "U+1C57", "U+A627", "U+A8D7", "U+A907", "U+A9D7", "U+A9F7", "U+AA57",
        "U+ABF7", "U+FF17", "U+104A7", "U+10D37", "U+1106D", "U+110F7",
        "U+1113D", "U+111D7", "U+112F7", "U+11457", "U+114D7", "U+11657",
        "U+116C7", "U+11737", "U+118E7", "U+11957", "U+11C57", "U+11D57",
        "U+11DA7", "U+16A67", "U+16AC7", "U+16B57", "U+1D7D5", "U+1D7DF",
        "U+1D7E9", "U+1D7F3", "U+1D7FD", "U+1E147", "U+1E2F7", "U+1E957",
        "U+1FBF7"},
       {"8", "U+0668", "U+06F8", "U+07C8", "U+096E", "U+09EE", "U+0A6E",
        "U+0AEE", "U+0B6E", "U+0BEE", "U+0C6E", "U+0CEE", "U+0D6E", "U+0DEE",
        "U+0E58", "U+0ED8", "U+0F28", "U+1048", "U+1098", "U+17E8", "U+1818",
        "U+194E", "U+19D8", "U+1A88", "U+1A98", "U+1B58", "U+1BB8", "U+1C48",
        "U+1C58", "U+A628", "U+A8D8", "U+A908", "U+A9D8", "U+A9F8", "U+AA58",
        "U+ABF8", "U+FF18", "U+104A8", "U+10D38", "U+1106E", "U+110F8",
        "U+1113E", "U+111D8", "U+112F8", "U+11458", "U+114D8", "U+11658",
        "U+116C8", "U+11738", "U+118E8", "U+11958", "U+11C58", "U+11D58",
        "U+11DA8", "U+16A68", "U+16AC8", "U+16B58", "U+1D7D6", "U+1D7E0",
        "U+1D7EA", "U+1D7F4", "U+1D7FE", "U+1E148", "U+1E2F8", "U+1E958",
        "U+1FBF8"},
       {"9", "U+0669", "U+06F9", "U+07C9", "U+096F", "U+09EF", "U+0A6F",
        "U+0AEF", "U+0B6F", "U+0BEF", "U+0C6F", "U+0CEF", "U+0D6F", "U+0DEF",
        "U+0E59", "U+0ED9", "U+0F29", "U+1049", "U+1099", "U+17E9", "U+1819",
        "U+194F", "U+19D9", "U+1A89", "U+1A99", "U+1B59", "U+1BB9", "U+1C49",
        "U+1C59", "U+A629", "U+A8D9", "U+A909", "U+A9D9", "U+A9F9", "U+AA59",
        "U+ABF9", "U+FF19", "U+104A9", "U+10D39", "U+1106F", "U+110F9",
        "U+1113F", "U+111D9", "U+112F9", "U+11459", "U+114D9", "U+11659",
        "U+116C9", "U+11739", "U+118E9", "U+11959", "U+11C59", "U+11D59",
        "U+11DA9", "U+16A69", "U+16AC9", "U+16B59", "U+1D7D7", "U+1D7E1",
        "U+1D7EB", "U+1D7F5", "U+1D7FF", "U+1E149", "U+1E2F9", "U+1E959",
        "U+1FBF9"} >>

IsDigit(c) == \E d \in 1..Len(DecimalDigits) : c \in DecimalDigits[d]
DigitVal(c) == (CHOOSE d \in 1..Len(DecimalDigits) : c \in DecimalDigits[d]) - 1

\* The whitespace int() skips around a number: the ASCII whitespace and every
\* non-ASCII character str.isspace() holds of.
IsSpace(c) ==
    c \in {"\t", "\n", "U+000B", "U+000C", "\r", " ", "U+0085", "U+00A0",
           "U+1680", "U+2000", "U+2001", "U+2002", "U+2003", "U+2004",
           "U+2005", "U+2006", "U+2007", "U+2008", "U+2009", "U+200A",
           "U+2028", "U+2029", "U+202F", "U+205F", "U+3000"}

RECURSIVE SkipWS(_, _)
SkipWS(s, i) ==
    IF i <= Len(s) /\ IsJsonSpace(s[i]) THEN SkipWS(s, i + 1) ELSE i

RECURSIVE SkipSpace(_, _)
SkipSpace(s, i) ==
    IF i <= Len(s) /\ IsSpace(s[i]) THEN SkipSpace(s, i + 1) ELSE i

RECURSIVE SkipSpaceBack(_, _)
SkipSpaceBack(s, j) ==
    IF j >= 1 /\ IsSpace(s[j]) THEN SkipSpaceBack(s, j - 1) ELSE j

\* the text between the whitespace int() skips
Strip(s) == SubSeq(s, SkipSpace(s, 1), SkipSpaceBack(s, Len(s)))

(***************************************************************************)
(* int(): of a str, an int, a bool; anything else raises TypeError         *)
(***************************************************************************)
\* digits with single underscores between them, as int() accepts
RECURSIVE DigitsOk(_, _)
DigitsOk(s, i) ==
    IF i > Len(s) THEN TRUE
    ELSE IF IsDigit(s[i]) THEN DigitsOk(s, i + 1)
    ELSE /\ s[i] = "_"
         /\ i > 1 /\ IsDigit(s[i - 1])
         /\ i < Len(s) /\ IsDigit(s[i + 1])
         /\ DigitsOk(s, i + 1)

RECURSIVE DigitsValue(_, _, _)
DigitsValue(s, i, acc) ==
    IF i > Len(s) THEN acc
    ELSE IF s[i] = "_" THEN DigitsValue(s, i + 1, acc)
    ELSE DigitsValue(s, i + 1, acc * 10 + DigitVal(s[i]))

\* int(text): [ok |-> TRUE, n |-> value] or [ok |-> FALSE] (ValueError)
IntOfStripped(b) ==
    LET signed == Len(b) > 0 /\ b[1] \in {"+", "-"}
        d == IF signed THEN Tail(b) ELSE b
    IN  IF Len(d) > 0 /\ DigitsOk(d, 1)
        THEN [ok |-> TRUE,
              n |-> IF signed /\ b[1] = "-" THEN 0 - DigitsValue(d, 1, 0)
                    ELSE DigitsValue(d, 1, 0)]
        ELSE [ok |-> FALSE, exc |-> "ValueError"]

IntOfText(s) == Eval(Strip(s), LAMBDA b : IntOfStripped(b))

\* int(v) for any Python value v
IntOf(v) ==
    CASE v.t = "int" -> [ok |-> TRUE, n |-> v.n]
      [] v.t = "bool" -> [ok |-> TRUE, n |-> IF v.b THEN 1 ELSE 0]
      [] v.t = "str" -> IntOfText(v.s)
      [] OTHER -> [ok |-> FALSE, exc |-> "TypeError"]

\* str(n) of an int, as json.dumps writes it
RECURSIVE NatText(_)
NatText(n) ==
    IF n < 10 THEN <<Digits[n + 1]>>
    ELSE NatText(n \div 10) \o <<Digits[(n % 10) + 1]>>

IntText(n) == IF n < 0 THEN <<"-">> \o NatText(0 - n) ELSE NatText(n)

(***************************************************************************)
(* dict                                                                    *)
(***************************************************************************)
HasKey(items, k) == \E i \in 1..Len(items) : items[i].k = k
KeyIndex(items, k) == CHOOSE i \in 1..Len(items) : items[i].k = k

\* d[k] = v : a new key is appended, an existing key keeps its position
DictSet(items, k, v) ==
    Eval([k |-> k, v |-> v], LAMBDA it :
        IF HasKey(items, it.k)
        THEN [items EXCEPT ![KeyIndex(items, it.k)] = it]
        ELSE Append(items, it))

\* dict(pairs): the pairs inserted left to right
RECURSIVE DictOfPairs(_, _)
DictOfPairs(pairs, acc) ==
    IF pairs = <<>> THEN acc
    ELSE Eval(DictSet(acc, Head(pairs).k, Head(pairs).v), LAMBDA a :
              DictOfPairs(Tail(pairs), a))

\* d.get(k)
DictGet(items, k) == IF HasKey(items, k) THEN items[KeyIndex(items, k)].v ELSE None

(***************************************************************************)
(* json.loads                                                              *)
(* Every parser returns [ok |-> TRUE, v |-> value, i |-> next index] or    *)
(* [ok |-> FALSE] (json.JSONDecodeError).                                  *)
(***************************************************************************)
JsonFail == [ok |-> FALSE]

\* the literal `w` (a character sequence) at position i of s
Literal(s, i, w) == i + Len(w) - 1 <= Len(s) /\ SubSeq(s, i, i + Len(w) - 1) = w

RECURSIVE ScanString(_, _)
\* s[j] is the first character after the opening quote; returns the position of
\* the closing one, 0 when the string is not closed or holds a control character
ScanString(s, j) ==
    IF j > Len(s) THEN 0
    ELSE IF s[j] = DQ THEN j
    ELSE IF s[j] \in ControlChars THEN 0
    ELSE ScanString(s, j + 1)

ParseString(s, i) ==
    Eval(ScanString(s, i + 1), LAMBDA j :
        IF j = 0 THEN JsonFail
        ELSE [ok |-> TRUE, v |-> PyStr(SubSeq(s, i + 1, j - 1)), i |-> j + 1])

RECURSIVE ScanDigits(_, _)
ScanDigits(s, j) == IF j <= Len(s) /\ IsAsciiDigit(s[j]) THEN ScanDigits(s, j + 1) ELSE j

\* NUMBER_RE: -?(0|[1-9][0-9]*) ; the integer part only
ParseNumber(s, i) ==
    LET neg == s[i] = "-"
        st == IF neg THEN i + 1 ELSE i
    IN  Eval(IF st <= Len(s) /\ s[st] = "0" THEN st + 1 ELSE ScanDigits(s, st), LAMBDA en :
            IF en = st THEN JsonFail
            ELSE [ok |-> TRUE,
                  v |-> PyInt(IF neg THEN 0 - DigitsValue(SubSeq(s, st, en - 1), 1, 0)
                              ELSE DigitsValue(SubSeq(s, st, en - 1), 1, 0)),
                  i |-> en])

RECURSIVE ParseValue(_, _)
RECURSIVE ParseMembers(_, _, _)
RECURSIVE ParseElements(_, _, _)

\* JSONObject: s[i] is the first character after '{'
ParseObject(s, i) ==
    Eval(SkipWS(s, i), LAMBDA j :
        IF j > Len(s) THEN JsonFail
        ELSE IF s[j] = "}" THEN [ok |-> TRUE, v |-> PyDict(<<>>), i |-> j + 1]
        ELSE IF s[j] = DQ THEN ParseMembers(s, j, <<>>)
        ELSE JsonFail)

\* after `"key": value`: '}' ends the object, ',' must be followed by a key
AfterMember(s, e, got) ==
    IF e > Len(s) THEN JsonFail
    ELSE IF s[e] = "}"
    THEN [ok |-> TRUE, v |-> PyDict(DictOfPairs(got, <<>>)), i |-> e + 1]
    ELSE IF s[e] # "," THEN JsonFail
    ELSE Eval(SkipWS(s, e + 1), LAMBDA n :
             IF n > Len(s) \/ s[n] # DQ THEN JsonFail
             ELSE ParseMembers(s, n, got))

\* the value of a member whose key was read and whose ':' is expected at c
MemberValue(s, c, key, pairs) ==
    IF c > Len(s) \/ s[c] # ":" THEN JsonFail
    ELSE Eval(SkipWS(s, c + 1), LAMBDA b :
         Eval(ParseValue(s, b), LAMBDA val :
             IF ~val.ok THEN JsonFail
             ELSE Eval(SkipWS(s, val.i), LAMBDA e :
                  Eval(Append(pairs, [k |-> key, v |-> val.v]), LAMBDA got :
                      AfterMember(s, e, got)))))

\* the members loop: s[i] is the opening quote of the next key
ParseMembers(s, i, pairs) ==
    Eval(ParseString(s, i), LAMBDA key :
        IF ~key.ok THEN JsonFail
        ELSE Eval(SkipWS(s, key.i), LAMBDA c : MemberValue(s, c, key.v, pairs)))

\* JSONArray: s[i] is the first character after '['
ParseArray(s, i) ==
    Eval(SkipWS(s, i), LAMBDA j :
        IF j > Len(s) THEN JsonFail
        ELSE IF s[j] = "]" THEN [ok |-> TRUE, v |-> PyList(<<>>), i |-> j + 1]
        ELSE ParseElements(s, j, <<>>))

\* after an element: ']' ends the array, ',' is followed by the next element
AfterElement(s, e, got) ==
    IF e > Len(s) THEN JsonFail
    ELSE IF s[e] = "]" THEN [ok |-> TRUE, v |-> PyList(got), i |-> e + 1]
    ELSE IF s[e] # "," THEN JsonFail
    ELSE Eval(SkipWS(s, e + 1), LAMBDA n : ParseElements(s, n, got))

ParseElements(s, i, xs) ==
    Eval(ParseValue(s, i), LAMBDA val :
        IF ~val.ok THEN JsonFail
        ELSE Eval(SkipWS(s, val.i), LAMBDA e :
             Eval(Append(xs, val.v), LAMBDA got : AfterElement(s, e, got))))

\* scan_once
ParseValue(s, i) ==
    IF i > Len(s) THEN JsonFail
    ELSE IF s[i] = DQ THEN ParseString(s, i)
    ELSE IF s[i] = "{" THEN ParseObject(s, i + 1)
    ELSE IF s[i] = "[" THEN ParseArray(s, i + 1)
    ELSE IF Literal(s, i, <<"n", "u", "l", "l">>)
    THEN [ok |-> TRUE, v |-> None, i |-> i + 4]
    ELSE IF Literal(s, i, <<"t", "r", "u", "e">>)
    THEN [ok |-> TRUE, v |-> PyBool(TRUE), i |-> i + 4]
    ELSE IF Literal(s, i, <<"f", "a", "l", "s", "e">>)
    THEN [ok |-> TRUE, v |-> PyBool(FALSE), i |-> i + 5]
    ELSE IF s[i] = "-" \/ IsAsciiDigit(s[i]) THEN ParseNumber(s, i)
    ELSE JsonFail

\* json.loads(text): one value with optional whitespace around it
JsonLoads(s) ==
    Eval(SkipWS(s, 1), LAMBDA b :
    Eval(ParseValue(s, b), LAMBDA r :
        IF r.ok /\ SkipWS(s, r.i) > Len(s) THEN [ok |-> TRUE, v |-> r.v]
        ELSE [ok |-> FALSE, exc |-> "JSONDecodeError"]))

(***************************************************************************)
(* json.dumps(v, ensure_ascii=False): default separators ", " and ": ",    *)
(* every character of the alphabet written as itself                      *)
(***************************************************************************)
RECURSIVE JsonDumps(_)
RECURSIVE DumpItems(_, _)
RECURSIVE DumpElems(_, _)

DumpItems(items, i) ==
    IF i > Len(items) THEN <<>>
    ELSE (IF i > 1 THEN <<",", " ">> ELSE <<>>)
         \o <<DQ>> \o items[i].k.s \o <<DQ, ":", " ">> \o JsonDumps(items[i].v)
         \o DumpItems(items, i + 1)

DumpElems(xs, i) ==
    IF i > Len(xs) THEN <<>>
    ELSE (IF i > 1 THEN <<",", " ">> ELSE <<>>) \o JsonDumps(xs[i]) \o DumpElems(xs, i + 1)

JsonDumps(v) ==
    CASE v.t = "null" -> <<"n", "u", "l", "l">>
      [] v.t = "bool" -> IF v.b THEN <<"t", "r", "u", "e">> ELSE <<"f", "a", "l", "s", "e">>
      [] v.t = "int" -> IntText(v.n)
      [] v.t = "str" -> <<DQ>> \o v.s \o <<DQ>>
      [] v.t = "list" -> <<"[">> \o DumpElems(v.xs, 1) \o <<"]">>
      [] v.t = "dict" -> <<"{">> \o DumpItems(v.items, 1) \o <<"}">>


(***************************************************************************)
(* Exceptions.  `names` is the set of configuration keys the message       *)
(* spells out; `cause` is the type of the exception the handler wrapped.   *)
(***************************************************************************)
NoError == [exc |-> "none"]

\* raise ValueError("<KEY> environment variable is required")
RequiredError(key) ==
    [exc |-> "ValueError", names |-> {key},
     msg |-> "{key} environment variable is required", cause |-> "none"]

\* the ValueError int(text) raises by itself: it quotes the text, no key
IntLiteralError ==
    [exc |-> "ValueError", names |-> {},
     msg |-> "invalid literal for int() with base 10: {text}", cause |-> "none"]

\* raise ValueError("<KEY> must be an integer ... id")
MustBeIntegerError(key) ==
    [exc |-> "ValueError", names |-> {key},
     msg |-> "{key} must be an integer id", cause |-> "ValueError"]

\* raise ValueError(f"Invalid <KEY> JSON provided (env or file): {e}")
InvalidJsonError(key, cause) ==
    [exc |-> "ValueError", names |-> {key},
     msg |-> "Invalid {key} JSON provided (env or file): {e}", cause |-> cause]

\* data.get(key) on a value json.load returned that is no dict
NoGetAttributeError ==
    [exc |-> "AttributeError", names |-> {},
     msg |-> "object has no attribute 'get'", cause |-> "none"]

(***************************************************************************)
(* The module namespace and the statement groups, in execution order       *)
(***************************************************************************)
Steps ==
    << "discord_token", "server_id", "channel_id", "required", "scalars",
       "roles", "derived", "pervert_role", "bot_self_id", "botspam_channel_id",
       "mods_dict", "rank_emoji", "user_newbest_limit", "role_thresholds" >>

StepIndex(step) == CHOOSE i \in 1..Len(Steps) : Steps[i] = step

\* the position after `step`
After(step) ==
    IF StepIndex(step) = Len(Steps) THEN "done" ELSE Steps[StepIndex(step) + 1]

\* Faulty variant of NextPc: an exception is swallowed and the pass goes on.
NextPc_Swallow(step, e) == After(step)

\* An exception no handler catches ends the execution of the module body.
NextPc(step, e) == IF e = NoError THEN After(step) ELSE "failed"

\* names each statement group binds
StepNames(step) ==
    CASE step = "discord_token" -> {"discord_token"}
      [] step = "server_id" -> {"server_id"}
      [] step = "channel_id" -> {"channel_id"}
      [] step = "required" -> {"DISCORD_TOKEN", "SERVER_ID", "BOT_CHANNEL_ID"}
      [] step = "scalars" ->
            {"API_CLIENT_ID", "API_CLIENT_SECRET", "database_url", "postgres_user",
             "postgres_password", "postgres_db", "DATABASE_URL", "POST_REQUEST_URL",
             "POST_REQUEST_TOKEN"}
      [] step = "roles" -> {"_roles_env", "roles_obj", "ROLES"}
      [] step = "derived" -> {"REV_ROLES", "ROLES_VALUE"}
      [] step = "pervert_role" -> {"_pervert_role_env", "PERVERT_ROLE"}
      [] step = "bot_self_id" -> {"_bot_self_env", "BOT_SELF_ID"}
      [] step = "botspam_channel_id" -> {"_botspam_env", "BOTSPAM_CHANNEL_ID"}
      [] step = "mods_dict" -> {"_mods_env", "mods_obj", "MODS_DICT"}
      [] step = "rank_emoji" -> {"_rank_emoji_env", "RANK_EMOJI"}
      [] step = "user_newbest_limit" -> {"_user_newbest_env", "ub_obj", "USER_NEWBEST_LIMIT"}
      [] step = "role_thresholds" -> {"_role_thresholds_env", "rt_obj", "ROLE_TRESHOLDS"}

\* environment variables each statement group reads with os.getenv
StepEnv(step) ==
    CASE step = "discord_token" -> {"DISCORD_TOKEN"}
      [] step = "server_id" -> {"SERVER_ID"}
      [] step = "channel_id" -> {"BOT_CHANNEL_ID"}
      [] step = "required" -> {}
      [] step = "scalars" ->
            {"API_CLIENT_ID", "API_CLIENT_SECRET", "DATABASE_URL", "POSTGRES_USER",
             "POSTGRES_PASSWORD", "POSTGRES_DB", "POST_REQUEST_URL", "POST_REQUEST_TOKEN"}
      [] step = "roles" -> {"ROLES_JSON"}
      [] step = "derived" -> {}
      [] step = "pervert_role" -> {"PERVERT_ROLE"}
      [] step = "bot_self_id" -> {"BOT_SELF_ID"}
      [] step = "botspam_channel_id" -> {"BOTSPAM_CHANNEL_ID"}
      [] step = "mods_dict" -> {"MODS_DICT_JSON"}
      [] step = "rank_emoji" -> {"RANK_EMOJI_JSON"}
      [] step = "user_newbest_limit" -> {"USER_NEWBEST_LIMIT_JSON"}
      [] step = "role_thresholds" -> {"ROLE_THRESHOLDS_JSON"}

Names == UNION {StepNames(Steps[i]) : i \in 1..Len(Steps)}
EnvNames == UNION {StepEnv(Steps[i]) : i \in 1..Len(Steps)} \cup {"MAPPINGS_FILE"}

\* the names the rest of the bot imports from config
PublicNames ==
    {"DISCORD_TOKEN", "SERVER_ID", "BOT_CHANNEL_ID", "API_CLIENT_ID", "API_CLIENT_SECRET",
     "DATABASE_URL", "POST_REQUEST_URL", "POST_REQUEST_TOKEN", "ROLES", "REV_ROLES",
     "ROLES_VALUE", "PERVERT_ROLE", "BOT_SELF_ID", "BOTSPAM_CHANNEL_ID", "MODS_DICT",
     "RANK_EMOJI", "USER_NEWBEST_LIMIT", "ROLE_TRESHOLDS"}

\* an environment variable os.getenv has not been called for yet
NotRead == [t |-> "notread"]

Bind(n, name, v) == [n EXCEPT ![name] = v]

(***************************************************************************)
(* _load_from_mappings_file                                                *)
(***************************************************************************)
\* abspath(dirname(__file__)/../mappings.json)
DefaultPath == <<"m", "a", "p", "p", "i", "n", "g", "s", ".", "j", "s", "o", "n">>

Missing == [exists |-> FALSE]
File(text) == [exists |-> TRUE, text |-> text]

\* os.getenv("MAPPINGS_FILE", default)
MappingsPath(mf) == IF mf = None THEN DefaultPath ELSE mf.s

\* os.path.exists
Exists(fsys, path) == path \in DOMAIN fsys /\ fsys[path].exists

\* the top-level keys of the mappings file, as text
KeyText(key) ==
    CASE key = "ROLES" -> <<"R", "O", "L", "E", "S">>
      [] key = "MODS_DICT" -> <<"M", "O", "D", "S", "_", "D", "I", "C", "T">>
      [] key = "RANK_EMOJI" -> <<"R", "A", "N", "K", "_", "E", "M", "O", "J", "I">>
      [] key = "USER_NEWBEST_LIMIT" ->
            <<"U", "S", "E", "R", "_", "N", "E", "W", "B", "E", "S", "T", "_",
              "L", "I", "M", "I", "T">>
      [] key = "ROLE_THRESHOLDS" ->
            <<"R", "O", "L", "E", "_", "T", "H", "R", "E", "S", "H", "O", "L", "D", "S">>

\* [ok |-> TRUE, v |-> value or None] or [ok |-> FALSE, err |-> AttributeError]
\* Faulty variant of LoadFromMappingsFile: no existence test, so that a missing
\* file raises out of the helper.
LoadFromMappingsFile_NoExistsTest(mf, fsys, key) ==
    LET path == MappingsPath(mf)
    IN  IF ~Exists(fsys, path)
        THEN [ok |-> FALSE, err |-> [NoGetAttributeError EXCEPT !.exc = "FileNotFoundError"]]
        ELSE Eval(JsonLoads(fsys[path].text), LAMBDA data :
                 IF ~data.ok THEN [ok |-> TRUE, v |-> None]
                 ELSE IF data.v.t = "dict"
                 THEN [ok |-> TRUE, v |-> DictGet(data.v.items, PyStr(KeyText(key)))]
                 ELSE [ok |-> FALSE, err |-> NoGetAttributeError])

LoadFromMappingsFile(mf, fsys, key) ==
    LET path == MappingsPath(mf)
    IN  IF ~Exists(fsys, path) THEN [ok |-> TRUE, v |-> None]
        ELSE Eval(JsonLoads(fsys[path].text), LAMBDA data :
                 IF ~data.ok THEN [ok |-> TRUE, v |-> None]
                 ELSE IF data.v.t = "dict"
                 THEN [ok |-> TRUE, v |-> DictGet(data.v.items, PyStr(KeyText(key)))]
                 ELSE [ok |-> FALSE, err |-> NoGetAttributeError])

(***************************************************************************)
(* The coercions of the statement groups                                   *)
(***************************************************************************)
\* Faulty variant of IsMissing: `if x is None`, which lets the empty string pass.
IsMissing_NoneOnly(v) == v = None

\* `if not (x := os.getenv(KEY)): raise`
IsMissing(v) == ~Truthy(v)

\* {k: int(v) for k, v in obj.items()}
\* [ok |-> TRUE, v |-> dict] or [ok |-> FALSE, exc |-> type of the exception]
RECURSIVE IntItems(_, _)
IntItems(items, acc) ==
    IF items = <<>> THEN [ok |-> TRUE, v |-> PyDict(acc)]
    ELSE Eval(IntOf(Head(items).v), LAMBDA n :
             IF ~n.ok THEN [ok |-> FALSE, exc |-> n.exc]
             ELSE Eval(DictSet(acc, Head(items).k, PyInt(n.n)), LAMBDA a :
                      IntItems(Tail(items), a)))

\* Faulty variant of IntMapping: `dict(obj)`, the values are not coerced.
IntMapping_NoCoercion(obj) ==
    IF obj.t # "dict" THEN [ok |-> FALSE, exc |-> "AttributeError"]
    ELSE [ok |-> TRUE, v |-> obj]

IntMapping(obj) ==
    IF obj.t # "dict" THEN [ok |-> FALSE, exc |-> "AttributeError"]
    ELSE IntItems(obj.items, <<>>)

\* `if isinstance(raw, str): obj = json.loads(raw) else: obj = raw`
Decode(raw) ==
    IF raw.t = "str" THEN JsonLoads(raw.s) ELSE [ok |-> TRUE, v |-> raw]

\* Faulty variant of ReadSource: the file is consulted first and the environment
\* only when the file holds nothing for the key.
ReadSource_FileFirst(envv, mf, fsys, key) ==
    Eval(LoadFromMappingsFile(mf, fsys, key), LAMBDA f :
        IF ~f.ok THEN [ok |-> FALSE, err |-> f.err, looked |-> TRUE]
        ELSE IF Truthy(f.v) THEN [ok |-> TRUE, v |-> f.v, looked |-> TRUE]
        ELSE [ok |-> TRUE, v |-> envv, looked |-> TRUE])

\* `x = os.getenv(NAME); if not x: x = _load_from_mappings_file(KEY)`
\* [ok |-> TRUE, v |-> raw value, looked |-> file consulted] or the file's error
ReadSource(envv, mf, fsys, key) ==
    IF Truthy(envv) THEN [ok |-> TRUE, v |-> envv, looked |-> FALSE]
    ELSE Eval(LoadFromMappingsFile(mf, fsys, key), LAMBDA f :
             IF f.ok THEN [ok |-> TRUE, v |-> f.v, looked |-> TRUE]
             ELSE [ok |-> FALSE, err |-> f.err, looked |-> TRUE])

\* try: obj = decoded raw; TARGET = {k: int(v) ...}  except Exception: raise
CoerceIntMapping(n, raw, looked, obj, target, key) ==
    Eval(Decode(raw), LAMBDA o :
        IF ~o.ok
        THEN [ns |-> n, err |-> InvalidJsonError(key, o.exc), looked |-> looked]
        ELSE Eval(IntMapping(o.v), LAMBDA m :
                 IF ~m.ok
                 THEN [ns |-> Bind(n, obj, o.v), err |-> InvalidJsonError(key, m.exc),
                       looked |-> looked]
                 ELSE [ns |-> Bind(Bind(n, obj, o.v), target, m.v), err |-> NoError,
                       looked |-> looked]))

\* A mapping key with integer values (ROLES, MODS_DICT, USER_NEWBEST_LIMIT,
\* ROLE_THRESHOLDS): the namespace and the exception after the group ran.
IntMappingBlock(n, envv, mf, fsys, tmp, obj, target, key) ==
    Eval(ReadSource(envv, mf, fsys, key), LAMBDA src :
        IF ~src.ok THEN [ns |-> Bind(n, tmp, envv), err |-> src.err, looked |-> src.looked]
        ELSE IF ~Truthy(src.v)
        THEN [ns |-> Bind(Bind(n, tmp, src.v), target, PyDict(<<>>)), err |-> NoError,
              looked |-> src.looked]
        ELSE CoerceIntMapping(Bind(n, tmp, src.v), src.v, src.looked, obj, target, key))

\* RANK_EMOJI: the decoded value is bound as it is
OpaqueMappingBlock(n, envv, mf, fsys, tmp, target, key) ==
    Eval(ReadSource(envv, mf, fsys, key), LAMBDA src :
        IF ~src.ok THEN [ns |-> Bind(n, tmp, envv), err |-> src.err, looked |-> src.looked]
        ELSE IF ~Truthy(src.v)
        THEN [ns |-> Bind(Bind(n, tmp, src.v), target, PyDict(<<>>)), err |-> NoError,
              looked |-> src.looked]
        ELSE Eval(Decode(src.v), LAMBDA o :
                 IF ~o.ok
                 THEN [ns |-> Bind(n, tmp, src.v), err |-> InvalidJsonError(key, o.exc),
                       looked |-> src.looked]
                 ELSE [ns |-> Bind(Bind(n, tmp, src.v), target, o.v), err |-> NoError,
                       looked |-> src.looked]))

\* Faulty variant of OptionalIntBlock: a value that is no integer is dropped
\* silently and the key is left unset.
OptionalIntBlock_Lenient(n, envv, tmp, target, key) ==
    LET n1 == Bind(n, tmp, envv)
    IN  IF Truthy(envv)
        THEN Eval(IntOf(envv), LAMBDA i :
                 IF i.ok THEN [ns |-> Bind(n1, target, PyInt(i.n)), err |-> NoError]
                 ELSE [ns |-> Bind(n1, target, None), err |-> NoError])
        ELSE [ns |-> Bind(n1, target, None), err |-> NoError]

\* An optional integer (PERVERT_ROLE, BOT_SELF_ID, BOTSPAM_CHANNEL_ID)
OptionalIntBlock(n, envv, tmp, target, key) ==
    LET n1 == Bind(n, tmp, envv)
    IN  IF Truthy(envv)
        THEN Eval(IntOf(envv), LAMBDA i :
                 IF i.ok THEN [ns |-> Bind(n1, target, PyInt(i.n)), err |-> NoError]
                 ELSE [ns |-> n1, err |-> MustBeIntegerError(key)])
        ELSE [ns |-> Bind(n1, target, None), err |-> NoError]

\* DISCORD_TOKEN = discord_token; SERVER_ID = int(server_id);
\* BOT_CHANNEL_ID = int(channel_id)
RequiredBlock(n) ==
    LET n1 == Bind(n, "DISCORD_TOKEN", n["discord_token"])
    IN  Eval(IntOf(n["server_id"]), LAMBDA s :
            IF ~s.ok THEN [ns |-> n1, err |-> IntLiteralError]
            ELSE Eval(IntOf(n["channel_id"]), LAMBDA c :
                     IF ~c.ok
                     THEN [ns |-> Bind(n1, "SERVER_ID", PyInt(s.n)), err |-> IntLiteralError]
                     ELSE [ns |-> Bind(Bind(n1, "SERVER_ID", PyInt(s.n)),
                                       "BOT_CHANNEL_ID", PyInt(c.n)),
                           err |-> NoError]))

\* str(v) inside an f-string
StrOf(v) == IF v = None THEN <<"N", "o", "n", "e">> ELSE v.s

\* database_url if database_url else f"postgresql://{user}:{password}@db:5432/{db}"
DatabaseUrl(url, user, password, db) ==
    IF Truthy(url) THEN url
    ELSE PyStr(<<"p", "o", "s", "t", "g", "r", "e", "s", "q", "l", ":", "/", "/">>
               \o StrOf(user) \o <<":">> \o StrOf(password)
               \o <<"@", "d", "b", ":", "5", "4", "3", "2", "/">> \o StrOf(db))

\* REV_ROLES = dict((v, k) for k, v in ROLES.items())
RECURSIVE RevItems(_, _)
RevItems(items, acc) ==
    IF items = <<>> THEN acc
    ELSE Eval(DictSet(acc, Head(items).v, Head(items).k), LAMBDA a :
              RevItems(Tail(items), a))

RevRoles(roles) == PyDict(RevItems(roles.items, <<>>))

\* ROLES_VALUE = dict((key, count) for count, key in enumerate(ROLES.keys()))
RECURSIVE EnumItems(_, _, _)
EnumItems(items, count, acc) ==
    IF items = <<>> THEN acc
    ELSE Eval(DictSet(acc, Head(items).k, PyInt(count)), LAMBDA a :
              EnumItems(Tail(items), count + 1, a))

\* Faulty variant of RolesValue: enumerate(..., 1), positions counted from 1.
RolesValue_FromOne(roles) == PyDict(EnumItems(roles.items, 1, <<>>))

RolesValue(roles) == PyDict(EnumItems(roles.items, 0, <<>>))

(***************************************************************************)
(* Inputs: the process environment and the file system                     *)
(***************************************************************************)
\* the longest generated ROLES_JSON object, in "key": value pairs
MaxPairs == 2

Item(k, v) == [k |-> PyStr(k), v |-> v]

Str(s) == PyStr(s)

T_Malformed == <<"{", "b">>
T_List == <<"[", "1", "]">>

AltPath == <<"a", "l", "t", ".", "j", "s", "o", "n">>

FileFull ==
    PyDict(<< Item(KeyText("ROLES"),
                   PyDict(<<Item(<<"A">>, Str(<<"7">>)), Item(<<"B">>, PyInt(2))>>)),
              Item(KeyText("MODS_DICT"), PyDict(<<Item(<<"H", "D">>, PyInt(8))>>)),
              Item(KeyText("RANK_EMOJI"), PyDict(<<Item(<<"S">>, Str(<<":", "s", ":">>))>>)),
              Item(KeyText("USER_NEWBEST_LIMIT"), PyDict(<<Item(<<"u">>, Str(<<"U+0665", "0">>))>>)),
              Item(KeyText("ROLE_THRESHOLDS"), PyDict(<<Item(<<"A">>, PyInt(100))>>)) >>)

\* values that are no objects: a string, a number, a list, an empty list, null
FileOdd ==
    PyDict(<< Item(KeyText("ROLES"), Str(<<"{", "}">>)),
              Item(KeyText("MODS_DICT"), PyInt(5)),
              Item(KeyText("RANK_EMOJI"), PyList(<<PyInt(1)>>)),
              Item(KeyText("USER_NEWBEST_LIMIT"), PyList(<<>>)),
              Item(KeyText("ROLE_THRESHOLDS"), None) >>)

\* objects with values int() rejects
FileBadValue ==
    PyDict(<< Item(KeyText("ROLES"), PyDict(<<Item(<<"A">>, Str(<<"x">>))>>)),
              Item(KeyText("MODS_DICT"), PyDict(<<Item(<<"H", "D">>, None)>>)),
              Item(KeyText("ROLE_THRESHOLDS"),
                   PyDict(<<Item(<<"A">>, PyList(<<PyInt(1)>>))>>)) >>)

FilePartial ==
    PyDict(<< Item(KeyText("ROLES"),
                   PyDict(<<Item(<<"B">>, PyInt(2)), Item(<<"A">>, PyInt(1))>>)) >>)

\* MAPPINGS_FILE and the content of the two paths
Scenario(mf, dflt, alt) ==
    [mf |-> mf, fs |-> (DefaultPath :> dflt) @@ (AltPath :> alt)]

Scenarios ==
    { Scenario(None, Missing, Missing),
      Scenario(None, File(T_Malformed), Missing),
      Scenario(None, File(T_List), Missing),
      Scenario(None, File(JsonDumps(FileFull)), Missing),
      Scenario(None, File(JsonDumps(FileOdd)), Missing),
      Scenario(None, File(JsonDumps(FileBadValue)), Missing),
      Scenario(None, File(JsonDumps(FilePartial)), Missing),
      Scenario(Str(AltPath), File(JsonDumps(FileFull)), File(JsonDumps(FilePartial))),
      Scenario(Str(<<>>), File(JsonDumps(FileFull)), Missing) }

TokenChoices == {None, Str(<<>>), Str(<<"t", "o", "k">>)}
\* "U+00A0" "4" "U+0662": a no-break space, then 42 with an Arabic-Indic digit
ServerIdChoices == {None, Str(<<>>), Str(<<"U+00A0", "4", "U+0662">>), Str(<<"4", "x">>)}
ChannelIdChoices == {None, Str(<<>>), Str(<<" ", "-", "7", " ">>), Str(<<"a", "b", "c">>)}
\* "U+FF17": the full-width digit seven
PervertRoleChoices == {None, Str(<<"U+FF17">>), Str(<<"x">>)}
BotSelfChoices == {Str(<<>>), Str(<<"1", "_", "0">>), Str(<<"1", ".", "5">>)}
\* 9 between an em space and a form feed
BotspamChoices == {None, Str(<<"U+2003", "9", "U+000C">>), Str(<<" ">>)}

\* the environment of the plain scalars: all unset, or all set
ScalarChoices ==
    { [other |-> None, url |-> None],
      [other |-> Str(<<"x">>), url |-> Str(<<"u">>)] }

\* generated ROLES_JSON texts: every list of at most MaxPairs "key": value pairs
RolePairs == { Item(<<"A">>, Str(<<"7">>)), Item(<<"B">>, PyInt(1)) }

\* a role id int() rejects
T_BadId == JsonDumps(PyDict(<<Item(<<"B">>, Str(<<"x">>))>>))

\* two role names with the same id
T_SameId ==
    JsonDumps(PyDict(<<Item(<<"A">>, PyInt(7)), Item(<<"B">>, PyInt(7))>>))

RECURSIVE PairSeqs(_)
PairSeqs(n) ==
    IF n = 0 THEN {<<>>}
    ELSE LET P == PairSeqs(n - 1)
         IN  P \cup {Append(p, it) : p \in {q \in P : Len(q) = n - 1}, it \in RolePairs}

\* the text of an object with these members, in this order (keys may repeat)
ObjectText(pairs) == <<"{">> \o DumpItems(pairs, 1) \o <<"}">>

RolesChoices ==
    {None, Str(<<>>), Str(T_Malformed), Str(T_List), Str(T_SameId), Str(T_BadId)}
        \cup {Str(ObjectText(p)) : p \in PairSeqs(MaxPairs)}

ModsChoices ==
    { None,
      Str(JsonDumps(PyDict(<<Item(<<"H", "D">>, PyInt(8)),
                             Item(<<"D", "T">>, Str(<<"6", "4">>))>>))),
      Str(JsonDumps(PyDict(<<Item(<<"H", "D">>, None)>>))) }

RankEmojiChoices ==
    { None,
      Str(JsonDumps(PyDict(<<Item(<<"X">>, Str(<<":", "x", ":">>))>>))),
      Str(T_List), Str(T_Malformed) }

UserNewbestChoices ==
    { None,
      Str(JsonDumps(PyDict(<<Item(<<"u">>, PyInt(5))>>))),
      Str(<<"[", "]">>) }

RoleThresholdsChoices ==
    { None,
      Str(JsonDumps(PyDict(<<Item(<<"A">>, Str(<<"1", "0">>))>>))),
      Str(JsonDumps(PyDict(<<Item(<<"A">>, Str(<<"x">>))>>))) }

(***************************************************************************)
(* State                                                                   *)
(***************************************************************************)
VARIABLES
    environ,   \* os.environ after load_dotenv; an entry is fixed when first read
    fs,        \* the file system: path -> Missing or File(text)
    ns,        \* the module namespace of config.py
    pc,        \* the statement group to run next, or "done" / "failed"
    err,       \* the exception that ended the pass, or NoError
    lookups    \* the keys _load_from_mappings_file was called with

vars == <<environ, fs, ns, pc, err, lookups>>

Init ==
    \E sc \in Scenarios :
        /\ environ = [e \in EnvNames |-> IF e = "MAPPINGS_FILE" THEN sc.mf ELSE NotRead]
        /\ fs = sc.fs
        /\ ns = [n \in Names |-> Unbound]
        /\ pc = "discord_token"
        /\ err = NoError
        /\ lookups = {}

\* the pass moves on, or ends at the first uncaught exception
Finish(step, result) ==
    \E r \in {result} :
        /\ ns' = r.ns
        /\ err' = r.err
        /\ pc' = NextPc(step, r.err)

\* `if not (x := os.getenv(KEY)): raise ValueError(...)`
RequireEnv(step, key, name, choices) ==
    /\ pc = step
    /\ \E v \in choices :
        /\ environ' = [environ EXCEPT ![key] = v]
        /\ Finish(step, [ns |-> Bind(ns, name, v),
                         err |-> IF IsMissing(v) THEN RequiredError(key) ELSE NoError])
    /\ UNCHANGED <<fs, lookups>>

CheckDiscordToken == RequireEnv("discord_token", "DISCORD_TOKEN", "discord_token", TokenChoices)
CheckServerId == RequireEnv("server_id", "SERVER_ID", "server_id", ServerIdChoices)
CheckBotChannelId == RequireEnv("channel_id", "BOT_CHANNEL_ID", "channel_id", ChannelIdChoices)

AssignRequired ==
    /\ pc = "required"
    /\ Finish("required", RequiredBlock(ns))
    /\ UNCHANGED <<environ, fs, lookups>>

PlainScalars ==
    /\ pc = "scalars"
    /\ \E c \in ScalarChoices :
        /\ environ' = [e \in EnvNames |->
                         IF e = "DATABASE_URL" THEN c.url
                         ELSE IF e \in StepEnv("scalars") THEN c.other
                         ELSE environ[e]]
        /\ Finish("scalars",
                  [ns |-> [n \in Names |->
                             CASE n \in {"API_CLIENT_ID", "API_CLIENT_SECRET",
                                        "postgres_user", "postgres_password",
                                        "postgres_db", "POST_REQUEST_URL",
                                        "POST_REQUEST_TOKEN"} -> c.other
                               [] n = "database_url" -> c.url
                               [] n = "DATABASE_URL" ->
                                    DatabaseUrl(c.url, c.other, c.other, c.other)
                               [] OTHER -> ns[n]],
                   err |-> NoError])
    /\ UNCHANGED <<fs, lookups>>

IntMappingStep(step, envname, choices, tmp, obj, target, key) ==
    /\ pc = step
    /\ \E v \in choices :
        \E r \in {IntMappingBlock(ns, v, environ["MAPPINGS_FILE"], fs, tmp, obj, target, key)} :
            /\ environ' = [environ EXCEPT ![envname] = v]
            /\ lookups' = IF r.looked THEN lookups \cup {key} ELSE lookups
            /\ Finish(step, r)
    /\ UNCHANGED fs

ResolveRoles ==
    IntMappingStep("roles", "ROLES_JSON", RolesChoices, "_roles_env", "roles_obj",
                   "ROLES", "ROLES")

DeriveRoles ==
    /\ pc = "derived"
    /\ Finish("derived",
              [ns |-> Bind(Bind(ns, "REV_ROLES", RevRoles(ns["ROLES"])),
                           "ROLES_VALUE", RolesValue(ns["ROLES"])),
               err |-> NoError])
    /\ UNCHANGED <<environ, fs, lookups>>

OptionalIntStep(step, key, choices, tmp) ==
    /\ pc = step
    /\ \E v \in choices :
        /\ environ' = [environ EXCEPT ![key] = v]
        /\ Finish(step, OptionalIntBlock(ns, v, tmp, key, key))
    /\ UNCHANGED <<fs, lookups>>

ResolvePervertRole ==
    OptionalIntStep("pervert_role", "PERVERT_ROLE", PervertRoleChoices, "_pervert_role_env")
ResolveBotSelfId ==
    OptionalIntStep("bot_self_id", "BOT_SELF_ID", BotSelfChoices, "_bot_self_env")
ResolveBotspamChannelId ==
    OptionalIntStep("botspam_channel_id", "BOTSPAM_CHANNEL_ID", BotspamChoices, "_botspam_env")

ResolveModsDict ==
    IntMappingStep("mods_dict", "MODS_DICT_JSON", ModsChoices, "_mods_env", "mods_obj",
                   "MODS_DICT", "MODS_DICT")

ResolveRankEmoji ==
    /\ pc = "rank_emoji"
    /\ \E v \in RankEmojiChoices :
        \E r \in {OpaqueMappingBlock(ns, v, environ["MAPPINGS_FILE"], fs,
                                    "_rank_emoji_env", "RANK_EMOJI", "RANK_EMOJI")} :
            /\ environ' = [environ EXCEPT !["RANK_EMOJI_JSON"] = v]
            /\ lookups' = IF r.looked THEN lookups \cup {"RANK_EMOJI"} ELSE lookups
            /\ Finish("rank_emoji", r)
    /\ UNCHANGED fs

ResolveUserNewbestLimit ==
    IntMappingStep("user_newbest_limit", "USER_NEWBEST_LIMIT_JSON", UserNewbestChoices,
                   "_user_newbest_env", "ub_obj", "USER_NEWBEST_LIMIT", "USER_NEWBEST_LIMIT")

\* the source binds the misspelt name ROLE_TRESHOLDS
ResolveRoleThresholds ==
    IntMappingStep("role_thresholds", "ROLE_THRESHOLDS_JSON", RoleThresholdsChoices,
                   "_role_thresholds_env", "rt_obj", "ROLE_TRESHOLDS", "ROLE_THRESHOLDS")

Next ==
    \/ CheckDiscordToken
    \/ CheckServerId
    \/ CheckBotChannelId
    \/ AssignRequired
    \/ PlainScalars
    \/ ResolveRoles
    \/ DeriveRoles
    \/ ResolvePervertRole
    \/ ResolveBotSelfId
    \/ ResolveBotspamChannelId
    \/ ResolveModsDict
    \/ ResolveRankEmoji
    \/ ResolveUserNewbestLimit
    \/ ResolveRoleThresholds

Spec == Init /\ [][Next]_vars

(***************************************************************************)
(* Vocabulary of the properties                                            *)
(***************************************************************************)
MapKeys == {"ROLES", "MODS_DICT", "RANK_EMOJI", "USER_NEWBEST_LIMIT", "ROLE_THRESHOLDS"}
IntMapKeys == MapKeys \ {"RANK_EMOJI"}
RequiredKeys == {"DISCORD_TOKEN", "SERVER_ID", "BOT_CHANNEL_ID"}
OptionalKeys == {"PERVERT_ROLE", "BOT_SELF_ID", "BOTSPAM_CHANNEL_ID"}

\* the statement group that resolves a key, its override name and its target
KeyStep(k) ==
    CASE k = "DISCORD_TOKEN" -> "discord_token"
      [] k = "SERVER_ID" -> "server_id"
      [] k = "BOT_CHANNEL_ID" -> "channel_id"
      [] k = "ROLES" -> "roles"
      [] k = "PERVERT_ROLE" -> "pervert_role"
      [] k = "BOT_SELF_ID" -> "bot_self_id"
      [] k = "BOTSPAM_CHANNEL_ID" -> "botspam_channel_id"
      [] k = "MODS_DICT" -> "mods_dict"
      [] k = "RANK_EMOJI" -> "rank_emoji"
      [] k = "USER_NEWBEST_LIMIT" -> "user_newbest_limit"
      [] k = "ROLE_THRESHOLDS" -> "role_thresholds"

KeyEnv(k) ==
    CASE k = "ROLES" -> "ROLES_JSON"
      [] k = "MODS_DICT" -> "MODS_DICT_JSON"
      [] k = "RANK_EMOJI" -> "RANK_EMOJI_JSON"
      [] k = "USER_NEWBEST_LIMIT" -> "USER_NEWBEST_LIMIT_JSON"
      [] k = "ROLE_THRESHOLDS" -> "ROLE_THRESHOLDS_JSON"
      [] OTHER -> k

KeyTarget(k) == IF k = "ROLE_THRESHOLDS" THEN "ROLE_TRESHOLDS" ELSE k

\* the statement group has started / was the one that raised / ran to its end
Ran(step) == \E n \in StepNames(step) : ns[n] # Unbound
LastRan == CHOOSE i \in 1..Len(Steps) :
               Ran(Steps[i]) /\ \A j \in (i + 1)..Len(Steps) : ~Ran(Steps[j])
FailedAt(step) == pc = "failed" /\ Ran(step) /\ Steps[LastRan] = step
Completed(step) == Ran(step) /\ ~FailedAt(step)

\* the environment value of a variable that was read
EnvAbsent(e) == environ[e] = None
EnvEmpty(e) == environ[e] = Str(<<>>)
EnvSet(e) == environ[e].t = "str" /\ Len(environ[e].s) > 0
EnvText(e) == environ[e].s

\* the mappings file as the pass finds it: whether it exists, whether it is a
\* single JSON object, and the members of that object
FileExists == Exists(fs, MappingsPath(environ["MAPPINGS_FILE"]))
TheFile ==
    IF ~FileExists THEN [exists |-> FALSE, object |-> FALSE, items |-> <<>>]
    ELSE Eval(JsonLoads(fs[MappingsPath(environ["MAPPINGS_FILE"])].text), LAMBDA d :
             IF d.ok /\ d.v.t = "dict"
             THEN [exists |-> TRUE, object |-> TRUE, items |-> d.v.items]
             ELSE [exists |-> TRUE, object |-> FALSE, items |-> <<>>])
\* what the file f holds for a key
Holds(f, k) == f.object /\ HasKey(f.items, Str(KeyText(k)))
Held(f, k) == DictGet(f.items, Str(KeyText(k)))

EmptyMapping == PyDict(<<>>)

\* a JSON text decoded as key k decodes it: [ok |-> TRUE, v |-> mapping] or not ok
DecodedText(k, text) ==
    Eval(JsonLoads(text), LAMBDA o :
        IF ~o.ok THEN [ok |-> FALSE]
        ELSE IF k \in IntMapKeys THEN IntMapping(o.v)
        ELSE [ok |-> TRUE, v |-> o.v])

\* the group of key k raised the ValueError that names k
FatalNaming(k) ==
    /\ FailedAt(KeyStep(k))
    /\ err.exc = "ValueError"
    /\ k \in err.names
    /\ ns[KeyTarget(k)] = Unbound

(***************************************************************************)
(* C1: for every mapping key, when the environment holds a non-empty value *)
(* for its override name, the outcome of the key is decided by that value  *)
(* alone: the key resolves to the mapping decoded from the environment     *)
(* text (or the pass fails naming the key when the text does not decode),  *)
(* and the mappings file is not even consulted for the key, whatever it    *)
(* holds.                                                                  *)
(***************************************************************************)
C1_EnvOutranksFile ==
    \A k \in MapKeys :
        (Ran(KeyStep(k)) /\ EnvSet(KeyEnv(k))) =>
            /\ k \notin lookups
            /\ \E d \in {DecodedText(k, EnvText(KeyEnv(k)))} :
                IF d.ok THEN Completed(KeyStep(k)) /\ ns[KeyTarget(k)] = d.v
                ELSE FatalNaming(k)

\* every mapping key resolved from the environment while the file holds another value
C1_Witness ==
    /\ pc = "done"
    /\ \E f \in {TheFile} :
        \A k \in MapKeys :
            /\ EnvSet(KeyEnv(k))
            /\ Holds(f, k)
            /\ Held(f, k).t = "dict"
            /\ ns[KeyTarget(k)] # EmptyMapping
            /\ \E d \in {DecodedText(k, JsonDumps(Held(f, k)))} :
                   d.ok /\ ns[KeyTarget(k)] # d.v

(***************************************************************************)
(* C2: a required scalar key whose environment value is absent or empty    *)
(* ends the pass in the ValueError that names the key; the key gets no     *)
(* value, and no lookup in the mappings file has been made.                *)
(***************************************************************************)
C2_RequiredMissingIsFatal ==
    \A k \in RequiredKeys :
        (EnvAbsent(k) \/ EnvEmpty(k)) =>
            /\ pc = "failed"
            /\ err.exc = "ValueError"
            /\ err.names = {k}
            /\ ns[k] = Unbound
            /\ lookups = {}

C2_Witness ==
    /\ pc = "failed"
    /\ EnvEmpty("SERVER_ID")
    /\ err.names = {"SERVER_ID"}
    /\ ns["discord_token"] # Unbound

(***************************************************************************)
(* C3 (as claimed): once the three required values are present, SERVER_ID  *)
(* and BOT_CHANNEL_ID resolve to the integer their text denotes, and a     *)
(* text that is no integer ends the pass in an error that names the key.   *)
(***************************************************************************)
C3_Claim_NonIntegerNamesKey ==
    Ran("required") =>
        \E s \in {IntOf(environ["SERVER_ID"])}, c \in {IntOf(environ["BOT_CHANNEL_ID"])} :
            /\ s.ok => ns["SERVER_ID"] = PyInt(s.n)
            /\ (s.ok /\ c.ok) => ns["BOT_CHANNEL_ID"] = PyInt(c.n)
            /\ ~s.ok => (FailedAt("required") /\ "SERVER_ID" \in err.names)
            /\ (s.ok /\ ~c.ok) => (FailedAt("required") /\ "BOT_CHANNEL_ID" \in err.names)

(***************************************************************************)
(* C4 (as claimed): an optional scalar key that is absent resolves to None *)
(* and the pass goes on; a present integer text resolves to that integer;  *)
(* a present text that is no integer ends the pass and never becomes None. *)
(***************************************************************************)
C4_Claim_PresentInvalidIsFatal ==
    \A k \in OptionalKeys :
        Ran(KeyStep(k)) =>
            IF EnvAbsent(k) THEN Completed(KeyStep(k)) /\ ns[k] = None
            ELSE \E i \in {IntOf(environ[k])} :
                    IF i.ok THEN Completed(KeyStep(k)) /\ ns[k] = PyInt(i.n)
                    ELSE FatalNaming(k)

(***************************************************************************)
(* C4 (amended): an optional scalar key that is absent OR EMPTY resolves   *)
(* to None and the pass goes on; a non-empty integer text resolves to that *)
(* integer; a non-empty text that is no integer ends the pass in the error *)
(* naming the key and the key never becomes None.                          *)
(***************************************************************************)
C4_OptionalScalar ==
    \A k \in OptionalKeys :
        Ran(KeyStep(k)) =>
            IF EnvAbsent(k) \/ EnvEmpty(k) THEN Completed(KeyStep(k)) /\ ns[k] = None
            ELSE \E i \in {IntOf(environ[k])} :
                    IF i.ok THEN Completed(KeyStep(k)) /\ ns[k] = PyInt(i.n)
                    ELSE FatalNaming(k)

\* the three cases in one pass: an integer, an empty value, an absent one
C4_Witness ==
    /\ pc = "done"
    /\ EnvSet("PERVERT_ROLE") /\ ns["PERVERT_ROLE"] = PyInt(7)
    /\ EnvEmpty("BOT_SELF_ID") /\ ns["BOT_SELF_ID"] = None
    /\ EnvAbsent("BOTSPAM_CHANNEL_ID") /\ ns["BOTSPAM_CHANNEL_ID"] = None

\* a text that is no integer ended the pass
C4_WitnessFatal ==
    /\ FailedAt("botspam_channel_id")
    /\ EnvSet("BOTSPAM_CHANNEL_ID")
    /\ err.names = {"BOTSPAM_CHANNEL_ID"}

(***************************************************************************)
(* C5: for every integer-valued mapping key with no environment value,     *)
(* when the mappings file holds an object for the key, the outcome is the  *)
(* one the same object written as JSON text would have through the         *)
(* environment; when every value coerces, the key resolves to the object's *)
(* keys, in order, each with its value coerced by int().                   *)
(***************************************************************************)
\* the items of m are those of obj with every value replaced by its int()
CoercedFrom(m, obj) ==
    /\ m.t = "dict"
    /\ Len(m.items) = Len(obj.items)
    /\ \A i \in 1..Len(obj.items) :
        /\ m.items[i].k = obj.items[i].k
        /\ m.items[i].v.t = "int"
        /\ \E n \in {IntOf(obj.items[i].v)} : n.ok /\ m.items[i].v.n = n.n

AllCoerce(obj) == \A i \in 1..Len(obj.items) : IntOf(obj.items[i].v).ok

C5_FileObjectCoerced ==
    \E f \in {TheFile} :
        \A k \in IntMapKeys :
            (/\ Ran(KeyStep(k))
             /\ ~EnvSet(KeyEnv(k))
             /\ Holds(f, k)
             /\ Held(f, k).t = "dict") =>
                /\ k \in lookups
                /\ \E viaEnv \in {DecodedText(k, JsonDumps(Held(f, k)))} :
                    IF AllCoerce(Held(f, k))
                    THEN /\ Completed(KeyStep(k))
                         /\ CoercedFrom(ns[KeyTarget(k)], Held(f, k))
                         /\ viaEnv.ok /\ ns[KeyTarget(k)] = viaEnv.v
                    ELSE ~viaEnv.ok /\ FatalNaming(k)

\* ROLES {"A": "7", "B": 2} and USER_NEWBEST_LIMIT {"u": "50"} came from the file
C5_Witness ==
    /\ pc = "done"
    /\ \E f \in {TheFile} :
        /\ \A k \in IntMapKeys : ~EnvSet(KeyEnv(k)) /\ Holds(f, k)
        /\ \E i \in 1..Len(Held(f, "ROLES").items) : Held(f, "ROLES").items[i].v.t = "str"
    /\ ns["ROLES"] = PyDict(<<Item(<<"A">>, PyInt(7)), Item(<<"B">>, PyInt(2))>>)
    /\ ns["USER_NEWBEST_LIMIT"] = PyDict(<<Item(<<"u">>, PyInt(50))>>)

(***************************************************************************)
(* C6 (as claimed): a mappings file that exists but is no single JSON      *)
(* object never ends the pass: a mapping key without an environment value  *)
(* resolves to the empty mapping.                                          *)
(***************************************************************************)
C6_Claim_BadFileNeverFatal ==
    (TheFile.exists /\ ~TheFile.object) =>
        \A k \in MapKeys :
            (Ran(KeyStep(k)) /\ ~EnvSet(KeyEnv(k))) =>
                Completed(KeyStep(k)) /\ ns[KeyTarget(k)] = EmptyMapping

(***************************************************************************)
(* C7: the two derived structures are a function of ROLES alone.           *)
(* REV_ROLES is the dict of the pairs (ROLES[k], k): each of its entries   *)
(* is such a pair, every id of ROLES is one of its keys (mapped to the     *)
(* last role name carrying the id), and for an injective ROLES it holds    *)
(* exactly those pairs, so REV_ROLES[ROLES[k]] = k.  ROLES_VALUE maps the  *)
(* i-th key of ROLES to i, counted from 0, and has the keys of ROLES; both *)
(* are empty when ROLES is, and deriving them never fails.                 *)
(***************************************************************************)
PairsOf(d) == {<<d.items[i].k, d.items[i].v>> : i \in 1..Len(d.items)}
Flipped(d) == {<<d.items[i].v, d.items[i].k>> : i \in 1..Len(d.items)}
Injective(d) ==
    \A i, j \in 1..Len(d.items) : d.items[i].v = d.items[j].v => i = j

OrderIndex(d, r) ==
    /\ Len(r.items) = Len(d.items)
    /\ \A i \in 1..Len(d.items) :
        r.items[i].k = d.items[i].k /\ r.items[i].v = PyInt(i - 1)

C7_DerivedFromRoles ==
    Ran("derived") =>
        /\ Completed("derived")
        /\ PairsOf(ns["REV_ROLES"]) \subseteq Flipped(ns["ROLES"])
        /\ \A i \in 1..Len(ns["ROLES"].items) :
            \E last \in {CHOOSE j \in 1..Len(ns["ROLES"].items) :
                            /\ ns["ROLES"].items[j].v = ns["ROLES"].items[i].v
                            /\ \A m \in (j + 1)..Len(ns["ROLES"].items) :
                                ns["ROLES"].items[m].v # ns["ROLES"].items[i].v} :
                DictGet(ns["REV_ROLES"].items, ns["ROLES"].items[i].v)
                    = ns["ROLES"].items[last].k
        /\ Injective(ns["ROLES"]) => PairsOf(ns["REV_ROLES"]) = Flipped(ns["ROLES"])
        /\ OrderIndex(ns["ROLES"], ns["ROLES_VALUE"])
        /\ ns["ROLES"] = EmptyMapping =>
               ns["REV_ROLES"] = EmptyMapping /\ ns["ROLES_VALUE"] = EmptyMapping

\* ROLES = {"B": 1, "A": 7}: REV_ROLES = {1: "B", 7: "A"}, ROLES_VALUE = {"B": 0, "A": 1}
C7_Witness ==
    /\ pc = "done"
    /\ ns["ROLES"] = PyDict(<<Item(<<"B">>, PyInt(1)), Item(<<"A">>, PyInt(7))>>)
    /\ ns["REV_ROLES"] = PyDict(<< [k |-> PyInt(1), v |-> Str(<<"B">>)],
                                   [k |-> PyInt(7), v |-> Str(<<"A">>)] >>)
    /\ ns["ROLES_VALUE"] = PyDict(<<Item(<<"B">>, PyInt(0)), Item(<<"A">>, PyInt(1))>>)

\* two role names with one id: REV_ROLES keeps the last
C7_WitnessSameId ==
    /\ Ran("derived")
    /\ Len(ns["ROLES"].items) = 2
    /\ ~Injective(ns["ROLES"])
    /\ Len(ns["REV_ROLES"].items) = 1

(***************************************************************************)
(* C8: a mapping key that neither source provides (no environment value,   *)
(* and the mappings file is missing or is an object without the key)       *)
(* resolves to the empty mapping and the pass goes on.                     *)
(***************************************************************************)
C8_NeitherSourceIsEmptyMapping ==
    \E f \in {TheFile} :
        \A k \in MapKeys :
            (/\ Ran(KeyStep(k))
             /\ ~EnvSet(KeyEnv(k))
             /\ (~f.exists \/ (f.object /\ ~Holds(f, k)))) =>
                /\ Completed(KeyStep(k))
                /\ ns[KeyTarget(k)] = EmptyMapping

\* no environment value and no file: the five mappings are empty
C8_Witness ==
    /\ pc = "done"
    /\ ~FileExists
    /\ \A k \in MapKeys : EnvAbsent(KeyEnv(k)) /\ ns[KeyTarget(k)] = EmptyMapping

\* the file is an object that lacks the key
C8_WitnessLacksKey ==
    /\ pc = "done"
    /\ Holds(TheFile, "ROLES") /\ ~Holds(TheFile, "RANK_EMOJI")
    /\ EnvAbsent("RANK_EMOJI_JSON")
    /\ ns["RANK_EMOJI"] = EmptyMapping

(***************************************************************************)
(* C9 (as claimed): for every mapping key, an environment text that is no  *)
(* JSON object (or, for the integer-valued keys, an object with a value    *)
(* int() rejects) ends the pass in the error naming the key, and is never  *)
(* accepted as the resolved value.                                         *)
(***************************************************************************)
ValidMappingText(k, text) ==
    \E o \in {JsonLoads(text)} :
        /\ o.ok
        /\ o.v.t = "dict"
        /\ k \in IntMapKeys => AllCoerce(o.v)

C9_Claim_InvalidMappingIsFatal ==
    \A k \in MapKeys :
        (/\ Ran(KeyStep(k))
         /\ EnvSet(KeyEnv(k))
         /\ ~ValidMappingText(k, EnvText(KeyEnv(k)))) =>
            FatalNaming(k)

(***************************************************************************)
(* C10: the pass is fail-fast in the order of the module: an exception     *)
(* ends it at once, so that in a failed pass no later statement group has  *)
(* read its environment variable, looked its key up in the file or bound   *)
(* a name, and a failed pass stays failed; a completed pass carries no     *)
(* exception and has every public name bound.                              *)
(***************************************************************************)
Untouched(step) ==
    /\ \A n \in StepNames(step) : ns[n] = Unbound
    /\ \A e \in StepEnv(step) : environ[e] = NotRead
    /\ \A k \in MapKeys : KeyStep(k) = step => k \notin lookups

C10_State ==
    /\ err # NoError <=> pc = "failed"
    /\ pc = "failed" =>
        /\ Ran(Steps[LastRan])
        /\ \A i \in (LastRan + 1)..Len(Steps) : Untouched(Steps[i])
    /\ pc \notin {"done", "failed"} =>
        \A i \in StepIndex(pc)..Len(Steps) : Untouched(Steps[i])
    /\ pc = "done" => \A n \in PublicNames : ns[n] # Unbound

C10_FailFast == []C10_State /\ [][pc = "failed" => pc' = "failed"]_vars

\* a pass that failed in the middle, and left the later keys untouched
C10_Witness ==
    /\ FailedAt("pervert_role")
    /\ ns["ROLES_VALUE"] # Unbound
    /\ ns["PERVERT_ROLE"] = Unbound
    /\ environ["BOT_SELF_ID"] = NotRead
    /\ ns["MODS_DICT"] = Unbound

====
